---- MODULE Spec2Model ----
(***************************************************************************)
(* Model of the two NetExec modules of this repository:                    *)
(*   src/logon_scripts_enum.py  (mode "logon": logon-script enumeration    *)
(*                               and the scripts.ini pass)                 *)
(*   src/password_spider.py     (mode "creds": the credential scan)        *)
(*                                                                         *)
(* Python strings are modelled as sequences of one-character strings, so   *)
(* that joining, splitting, lower-casing and matching are computed.        *)
(***************************************************************************)
EXTENDS Integers, Sequences, FiniteSets, TLC

VARIABLES
    mode,       \* which module class the instance is: "logon" or "creds"
    save_dir,   \* self.save_dir: "None" or the resolved directory
    findings,   \* self.csv_rows / self.findings: sequence of ordered dicts
    fsDirs,     \* local directories that exist
    fsFile,     \* the export file below the SAVE directory
    log,        \* every line given to context.log, in order
    remote,     \* the SYSVOL share the session object serves
    trace,      \* events of the last on_login run (or walk), in order
    raised,     \* exception the last on_login run ended with, or "none"
    runs        \* number of on_login runs made on the instance

vars == <<mode, save_dir, findings, fsDirs, fsFile, log, remote, trace, raised, runs>>

-----------------------------------------------------------------------------
(* Bounds of the model *)

\* most entries (files and directories together) in a tree of SpecWalk
MaxNodes == 3
\* most on_login runs on one module instance
MaxRuns == 2
\* most lines in a script text of SpecExtract
MaxLines == 2

-----------------------------------------------------------------------------
(* Strings *)

UpperChars == <<"A","B","C","D","E","F","G","H","I","J","K","L","M",
                "N","O","P","Q","R","S","T","U","V","W","X","Y","Z">>
LowerChars == <<"a","b","c","d","e","f","g","h","i","j","k","l","m",
                "n","o","p","q","r","s","t","u","v","w","x","y","z">>
Digits == {"0","1","2","3","4","5","6","7","8","9"}

Range(s) == {s[i] : i \in 1..Len(s)}

\* str.lower() on one character
LowerChar(c) ==
    IF \E i \in 1..26 : UpperChars[i] = c
    THEN LowerChars[CHOOSE i \in 1..26 : UpperChars[i] = c]
    ELSE c

\* str.lower()
Lower(s) == [i \in 1..Len(s) |-> LowerChar(s[i])]

\* str.replace(a, b) for single characters
ReplaceChar(s, a, b) == [i \in 1..Len(s) |-> IF s[i] = a THEN b ELSE s[i]]

\* s.endswith(t)
EndsWith(s, t) ==
    /\ Len(t) <= Len(s)
    /\ SubSeq(s, Len(s) - Len(t) + 1, Len(s)) = t

\* s.startswith(t), from position i (1-based)
StartsAt(s, i, t) ==
    /\ i >= 1
    /\ i + Len(t) - 1 <= Len(s)
    /\ SubSeq(s, i, i + Len(t) - 1) = t

\* t in s
Contains(s, t) == \E i \in 1..(Len(s) + 1) : StartsAt(s, i, t)

\* s.split(sep) for a single-character separator
RECURSIVE Split(_, _)
Split(s, sep) ==
    IF \A i \in 1..Len(s) : s[i] # sep
    THEN <<s>>
    ELSE LET i == CHOOSE k \in 1..Len(s) :
                      s[k] = sep /\ \A j \in 1..(k - 1) : s[j] # sep
         IN <<SubSeq(s, 1, i - 1)>> \o Split(SubSeq(s, i + 1, Len(s)), sep)

\* "/".join(segs)
RECURSIVE JoinSegs(_)
JoinSegs(segs) ==
    IF segs = <<>> THEN <<>>
    ELSE IF Len(segs) = 1 THEN segs[1]
    ELSE segs[1] \o <<"/">> \o JoinSegs(Tail(segs))

Dot == <<".">>
DotDot == <<".", ".">>

\* Path(name).name: the last component, "" when there is none
PathName(name) ==
    LET segs == SelectSeq(Split(name, "/"), LAMBDA g : g # <<>> /\ g # Dot)
    IN IF segs = <<>> THEN <<>> ELSE segs[Len(segs)]

\* Path(name).suffix: from the last dot of the last component, unless that dot
\* is the first or the last character
Suffix(name) ==
    LET n == PathName(name)
        dots == {i \in 1..Len(n) : n[i] = "."}
        last == CHOOSE i \in dots : \A j \in dots : j <= i
    IN IF dots = {} THEN <<>>
       ELSE IF last >= 2 /\ last <= Len(n) - 1 THEN SubSeq(n, last, Len(n))
       ELSE <<>>

\* str(PurePosixPath(p)): empty and "." components are dropped
PurePosixPath(p) ==
    JoinSegs(SelectSeq(Split(p, "/"), LAMBDA g : g # <<>> /\ g # Dot))

-----------------------------------------------------------------------------
(* Directory entries and the entry adapter *)

NameCands == <<"filename", "longname", "name", "get_longname">>
DirCands == <<"isDirectory", "is_directory", "is_dir">>

\* an entry object: the attributes it has, and what they answer
MkEntry(has, name, dir) == [has |-> has, name |-> name, dir |-> dir]

\* _entry_name(entry)
_entry_name(entry) ==
    IF \E i \in 1..Len(NameCands) : NameCands[i] \in entry.has
    THEN entry.name
    ELSE <<>>

\* _is_dir(entry)
_is_dir(entry) ==
    IF \E i \in 1..Len(DirCands) : DirCands[i] \in entry.has
    THEN entry.dir
    ELSE IF "smbAttributes" \in entry.has THEN entry.dir
    ELSE FALSE

-----------------------------------------------------------------------------
(* The remote share served by the session object *)

\* how the session answers the retrieval calls made for one file
MkPlan(get, open, read, close, data) ==
    [get |-> get, open |-> open, read |-> read, close |-> close, data |-> data]

DefaultPlan == MkPlan(TRUE, TRUE, TRUE, TRUE, <<>>)

\* a listing that fails (listPath raises); also the filler of a file node
NoListing == [ok |-> FALSE, kids |-> <<>>]

OkListing(kids) == [ok |-> TRUE, kids |-> kids]

ImpacketShape == {"get_longname", "is_directory"}
PysmbShape == {"filename", "isDirectory"}

FileNode(shape, name, plan) ==
    [entry |-> MkEntry(shape, name, FALSE), sub |-> NoListing, plan |-> plan]

DirNode(name, listing) ==
    [entry |-> MkEntry(ImpacketShape, name, TRUE), sub |-> listing,
     plan |-> DefaultPlan]

Sysvol == <<"S","Y","S","V","O","L">>
Domain == <<"c","o","r","p">>
ScriptsName == <<"s","c","r","i","p","t","s">>
PoliciesName == <<"P","o","l","i","c","i","e","s">>

\* the share: <domain>/scripts and <domain>/Policies with the given listings
ShareRoot(scripts, policies) ==
    OkListing(<<DirNode(Domain,
        OkListing(<<DirNode(ScriptsName, scripts),
                    DirNode(PoliciesName, policies)>>))>>)

\* the listing of the directory reached from listing l along segs
RECURSIVE Descend(_, _)
Descend(l, segs) ==
    IF ~l.ok THEN NoListing
    ELSE IF segs = <<>> THEN l
    ELSE LET hits == {i \in 1..Len(l.kids) :
                          /\ l.kids[i].entry.name = Head(segs)
                          /\ l.kids[i].entry.dir}
         IN IF hits = {} THEN NoListing
            ELSE Descend(l.kids[CHOOSE i \in hits : TRUE].sub, Tail(segs))

\* smb.listPath(share, pattern): the server takes both separators, and the
\* pattern <dir>/* lists the directory
ListPath(rem, share, pattern) ==
    LET p == ReplaceChar(pattern, "\\", "/")
        n == Len(p)
    IN IF share # Sysvol \/ n < 2 THEN NoListing
       ELSE IF SubSeq(p, n - 1, n) # <<"/", "*">> THEN NoListing
       ELSE Descend(rem, Split(SubSeq(p, 1, n - 2), "/"))

\* the file node a path names, for the retrieval calls
RECURSIVE FindFile(_, _)
FindFile(l, segs) ==
    IF ~l.ok \/ segs = <<>> THEN {}
    ELSE LET hits == {i \in 1..Len(l.kids) : l.kids[i].entry.name = Head(segs)}
         IN IF hits = {} THEN {}
            ELSE LET kid == l.kids[CHOOSE i \in hits : TRUE]
                 IN IF Len(segs) = 1
                    THEN (IF kid.entry.dir THEN {} ELSE {kid})
                    ELSE (IF kid.entry.dir THEN FindFile(kid.sub, Tail(segs)) ELSE {})

\* the plan of the file a path names; a path naming no file fails every call
PlanOf(rem, path) ==
    LET found == FindFile(rem, Split(ReplaceChar(path, "\\", "/"), "/"))
    IN IF found = {} THEN MkPlan(FALSE, FALSE, FALSE, FALSE, <<>>)
       ELSE (CHOOSE k \in found : TRUE).plan

-----------------------------------------------------------------------------
(* Events of a run *)

Ev(op, tag, arg, ok) == [op |-> op, tag |-> tag, arg |-> arg, ok |-> ok]

RaiseEv(exc) == Ev("raise", exc, <<>>, FALSE)

\* the events end with an exception on its way up
Raised(evs) == evs # <<>> /\ evs[Len(evs)].op = "raise"

-----------------------------------------------------------------------------
(* _iter_files *)

ScriptExts == {<<".","b","a","t">>, <<".","c","m","d">>, <<".","p","s","1">>,
               <<".","v","b","s">>, <<".","k","i","x">>}
IniExts == {<<".","i","n","i">>}

\* the pattern handed to listPath
ListArg(m, path) ==
    IF m = "creds"
    THEN ReplaceChar(path, "/", "\\") \o <<"\\", "*">>
    ELSE path \o <<"/", "*">>

\* except Exception: return []
OnListFailPropagate(ev) == <<ev, RaiseEv("SessionError")>>
OnListFailRetry(ev) == <<ev, ev>>
OnListFail(ev) == <<ev>>

\* rel_path = f"{path}/{name}" if path else name
RelPath(path, name) ==
    IF path # <<>> THEN path \o <<"/">> \o name ELSE name

\* if name in {'.', '..'}: continue
SkipNameNever(name) == FALSE
SkipName(name) == name \in {Dot, DotDot}

\* Path(name).suffix.lower() in exts
ExtMatchesNoLower(name, exts) == Suffix(name) \in exts
ExtMatches(name, exts) == Lower(Suffix(name)) \in exts

RECURSIVE IterFiles(_, _, _, _, _)
RECURSIVE IterEntries(_, _, _, _, _, _)

\* the body of the for loop for one entry
IterEntry(rem, m, share, path, exts, entry) ==
    LET name == _entry_name(entry)
        rel_path == RelPath(path, name)
    IN IF SkipName(name) THEN <<>>
       ELSE IF _is_dir(entry) THEN IterFiles(rem, m, share, rel_path, exts)
       ELSE IF ExtMatches(name, exts) THEN <<Ev("yield", share, rel_path, TRUE)>>
       ELSE <<>>

\* here holds what the loop body did for the first entry: the loop goes on
\* unless an exception is on its way up
IterRest(rem, m, share, path, exts, entries, here) ==
    IF Raised(here) THEN here
    ELSE here \o IterEntries(rem, m, share, path, exts, Tail(entries))

\* the for loop of _iter_files over the entries still to visit
IterEntries(rem, m, share, path, exts, entries) ==
    IF entries = <<>> THEN <<>>
    ELSE IterRest(rem, m, share, path, exts, entries,
                  IterEntry(rem, m, share, path, exts, Head(entries)))

\* res is what listPath answered
IterListed(rem, m, share, path, exts, res) ==
    IF ~res.ok
    THEN OnListFail(Ev("listPath", share, ListArg(m, path), FALSE))
    ELSE <<Ev("listPath", share, ListArg(m, path), TRUE)>>
         \o IterEntries(rem, m, share, path, exts,
                        [i \in 1..Len(res.kids) |-> res.kids[i].entry])

\* _iter_files(smb, share, path, exts): the listPath calls it makes and the
\* pairs it yields, in the order a consumer of the generator sees them
IterFiles(rem, m, share, path, exts) ==
    IterListed(rem, m, share, path, exts, ListPath(rem, share, ListArg(m, path)))
\* the (share, path) pairs among the events
Yields(evs) ==
    LET ys == SelectSeq(evs, LAMBDA e : e.op = "yield")
    IN [i \in 1..Len(ys) |-> <<ys[i].tag, ys[i].arg>>]

-----------------------------------------------------------------------------
(* The trees of SpecWalk: every tree of at most MaxNodes entries whose      *)
(* entries carry these names, names unique within a directory, grown one   *)
(* entry at a time                                                         *)

NameABat == <<"a",".","b","a","t">>
NameBPs1 == <<"b",".","P","S","1">>
NameCTxt == <<"c",".","t","x","t">>
NameD == <<"d">>
NameE == <<"e",".","c","m","d">>

WalkFileNames == {NameABat, NameBPs1, NameCTxt}
WalkDirNames == {NameD, NameE, Dot, DotDot}

WalkFile(name) ==
    FileNode(IF name = NameCTxt THEN PysmbShape ELSE ImpacketShape, name, DefaultPlan)

\* number of entries of a listing, nested ones counted
RECURSIVE Size(_)
Size(l) ==
    IF l.kids = <<>> THEN 0
    ELSE 1 + Size(Head(l.kids).sub) + Size(OkListing(Tail(l.kids)))

\* the entries that can be added at the end of listing l
NewKids(l) ==
    LET used == {l.kids[i].entry.name : i \in 1..Len(l.kids)}
    IN {WalkFile(n) : n \in WalkFileNames \ used}
       \cup {DirNode(n, OkListing(<<>>)) : n \in WalkDirNames \ used}
       \cup {DirNode(n, NoListing) : n \in WalkDirNames \ used}

\* the listings that are l with one entry more, at the end of one of its
\* directories
RECURSIVE Grown(_)
Grown(l) ==
    IF ~l.ok THEN {}
    ELSE {OkListing(Append(l.kids, c)) : c \in NewKids(l)}
         \cup UNION {{OkListing([l.kids EXCEPT ![i].sub = g]) :
                          g \in Grown(l.kids[i].sub)} :
                      i \in {j \in 1..Len(l.kids) : l.kids[j].entry.dir}}

ScriptsRoot == Domain \o <<"/">> \o ScriptsName
PoliciesRoot == Domain \o <<"/">> \o PoliciesName

\* the listing of <domain>/scripts in a share built by ShareRoot
ScriptsTree(rem) == rem.kids[1].sub.kids[1].sub
PoliciesTree(rem) == rem.kids[1].sub.kids[2].sub

NoFile == [exists |-> FALSE, header |-> <<>>, rows |-> <<>>]

InitWalk ==
    /\ mode \in {"logon", "creds"}
    /\ remote \in {ShareRoot(t, NoListing) : t \in {NoListing, OkListing(<<>>)}}
    /\ trace = <<>>
    /\ runs = 0
    /\ save_dir = "None"
    /\ findings = <<>>
    /\ fsDirs = {}
    /\ fsFile = NoFile
    /\ log = <<>>
    /\ raised = "none"

\* the share gains one entry before the walk: a file, a directory that
\* lists (empty so far) or a directory whose listing fails
Grow ==
    /\ runs = 0
    /\ Size(ScriptsTree(remote)) < MaxNodes
    /\ \E t \in Grown(ScriptsTree(remote)) : remote' = ShareRoot(t, NoListing)
    /\ UNCHANGED <<mode, save_dir, findings, fsDirs, fsFile, log, trace, raised, runs>>

\* one whole walk of <domain>/scripts, consumed to its end
Walk ==
    /\ runs = 0
    /\ trace' = IterFiles(remote, mode, Sysvol, ScriptsRoot, ScriptExts)
    /\ runs' = 1
    /\ UNCHANGED <<mode, save_dir, findings, fsDirs, fsFile, log, remote, raised>>

NextWalk == Grow \/ Walk

SpecWalk == InitWalk /\ [][NextWalk]_vars

-----------------------------------------------------------------------------
(* What a walk is to find, read off the tree itself *)

\* the name carries one of the extensions, in any letter case
HasExt(name, exts) ==
    \E e \in exts : Len(name) > Len(e) /\ EndsWith(Lower(name), e)

IsAlias(name) == name = Dot \/ name = DotDot

\* paths of the files with an extension of exts below listing l (itself at
\* path), reached through directories that list; "." and ".." name the
\* directory and its parent, not members of the tree
RECURSIVE FilesUnder(_, _, _)
FilesUnder(l, path, exts) ==
    IF ~l.ok THEN {}
    ELSE UNION {LET k == l.kids[i]
                    p == path \o <<"/">> \o k.entry.name
                IN IF IsAlias(k.entry.name) THEN {}
                   ELSE IF k.entry.dir THEN FilesUnder(k.sub, p, exts)
                   ELSE IF HasExt(k.entry.name, exts) THEN {p}
                   ELSE {} : i \in 1..Len(l.kids)}

\* every directory of the tree lists
RECURSIVE AllList(_)
AllList(l) ==
    /\ l.ok
    /\ \A i \in 1..Len(l.kids) :
           (l.kids[i].entry.dir /\ ~IsAlias(l.kids[i].entry.name))
               => AllList(l.kids[i].sub)

\* the files of the tree that carry no extension of exts, by position
RECURSIVE OtherFiles(_, _)
OtherFiles(l, exts) ==
    IF ~l.ok THEN {}
    ELSE UNION {LET k == l.kids[i]
                IN IF IsAlias(k.entry.name) THEN {}
                   ELSE IF k.entry.dir
                   THEN {<<i>> \o q : q \in OtherFiles(k.sub, exts)}
                   ELSE IF HasExt(k.entry.name, exts) THEN {}
                   ELSE {<<i>>} : i \in 1..Len(l.kids)}

NoDuplicates(s) == \A i, j \in 1..Len(s) : s[i] = s[j] => i = j

\* C1: on a tree in which every directory lists, the walk yields one
\* (share, path) pair for each file whose lower-cased extension is in exts,
\* each exactly once, and nothing else: N matching files give N pairs.
C1_WalkYieldsEachMatchOnce ==
    (runs = 1 /\ AllList(ScriptsTree(remote))) =>
        LET ys == Yields(trace)
            want == FilesUnder(ScriptsTree(remote), ScriptsRoot, ScriptExts)
        IN /\ NoDuplicates(ys)
           /\ Range(ys) = {<<Sysvol, p>> : p \in want}
           /\ Len(ys) = Cardinality(want)

\* a finished walk of a tree that lists everywhere and holds, in a
\* subdirectory, a matching file with an upper-case extension beside a file
\* that does not match
C1_Witness ==
    /\ runs = 1
    /\ AllList(ScriptsTree(remote))
    /\ OtherFiles(ScriptsTree(remote), ScriptExts) # {}
    /\ \E i \in 1..Len(Yields(trace)) :
           /\ Len(Split(Yields(trace)[i][2], "/")) > 3
           /\ EndsWith(Yields(trace)[i][2], <<".","P","S","1">>)

\* the directories of the tree whose listing fails, by path
RECURSIVE FailedDirs(_, _)
FailedDirs(l, path) ==
    IF ~l.ok THEN {path}
    ELSE UNION {LET k == l.kids[i]
                IN IF k.entry.dir /\ ~IsAlias(k.entry.name)
                   THEN FailedDirs(k.sub, path \o <<"/">> \o k.entry.name)
                   ELSE {} : i \in 1..Len(l.kids)}

\* C2: whatever directories fail to list, the walk raises nothing and yields
\* exactly the matching files all of whose ancestor directories list; a
\* failing subtree takes no file of a sibling or an ancestor with it.
C2_FailedSubtreeOnlyLosesItself ==
    runs = 1 =>
        /\ \A i \in 1..Len(trace) : trace[i].op # "raise"
        /\ Range(Yields(trace)) =
               {<<Sysvol, p>> :
                    p \in FilesUnder(ScriptsTree(remote), ScriptsRoot, ScriptExts)}

\* a finished walk in which a subdirectory failed to list and a matching
\* file listed after it, in the parent, was still yielded
C2_Witness ==
    /\ runs = 1
    /\ \E i, j \in 1..Len(trace) :
           /\ i < j
           /\ trace[i].op = "listPath" /\ ~trace[i].ok
           /\ trace[j].op = "yield"
    /\ FailedDirs(ScriptsTree(remote), ScriptsRoot) # {}
    /\ ScriptsTree(remote).ok

-----------------------------------------------------------------------------
(* _read_file *)

\* a byte that is no valid text
BadByte == "<ff>"

\* bytes.decode(errors='ignore'): invalid bytes are dropped
Decode(data) == SelectSeq(data, LAMBDA c : c # BadByte)

\* the handle openFile returns for a path
Handle(path) == <<"#">> \o path

\* what _read_file hands back: the calls it made, ending with its return
\* (or with the exception it lets through)
ReturnEv(share, text) == Ev("return", share, text, TRUE)

\* except Exception: return ""
OnReadFailPropagate(share, evs) == Append(evs, RaiseEv("SessionError"))
OnReadFail(share, evs) == Append(evs, ReturnEv(share, <<>>))

\* the open/read/close sequence; readArg is what readFile is handed
OpenReadClose(plan, share, path, readArg, before) ==
    LET fh == Handle(path)
        o == Ev("openFile", share, path, plan.open)
        r == Ev("readFile", share, readArg, plan.read)
        c == Ev("closeFile", share, fh, plan.close)
    IN IF ~plan.open THEN OnReadFail(share, before \o <<o>>)
       ELSE IF ~plan.read THEN OnReadFail(share, before \o <<o, r>>)
       ELSE IF ~plan.close THEN OnReadFail(share, before \o <<o, r, c>>)
       ELSE before \o <<o, r, c, ReturnEv(share, Decode(plan.data))>>

\* password_spider._read_file: getFile, then open/read/close
ReadFileCreds(rem, share, path) ==
    LET win_path == ReplaceChar(path, "/", "\\")
        plan == PlanOf(rem, win_path)
        g == Ev("getFile", share, win_path, plan.get)
    IN IF plan.get
       THEN <<g, ReturnEv(share, Decode(plan.data))>>
       ELSE OpenReadClose(plan, share, win_path, Handle(win_path), <<g>>)

\* logon_scripts_enum._read_file: open/read/close, readFile given the path
ReadFileLogon(rem, share, path) ==
    OpenReadClose(PlanOf(rem, path), share, path, path, <<>>)

_read_file(m, rem, share, path) ==
    IF m = "creds" THEN ReadFileCreds(rem, share, path)
    ELSE ReadFileLogon(rem, share, path)

\* the text a finished _read_file returned
Returned(evs) == evs[Len(evs)].arg

-----------------------------------------------------------------------------
(* _PATTERNS: the four expressions, matched as re does (re.I). A position
   is an index into the text; 0 stands for "no match from here". *)

Whitespace == {" ", "\t", "\n", "\r", "\f"}
Quotes == {"'", "\""}
LineEnds == {"\r", "\n"}
\* \s
IsSpace(c) == c \in Whitespace
\* \S
NonSpace(c) == c \notin Whitespace
\* [^'\"\r\n]
ValueChar(c) == c \notin Quotes /\ c \notin LineEnds

\* \w
WordChar(c) ==
    \/ c \in Digits
    \/ c = "_"
    \/ \E i \in 1..26 : c = UpperChars[i] \/ c = LowerChars[i]

\* a character class of a pattern, by name
InClass(class, c) ==
    CASE class = "IsSpace" -> IsSpace(c)
      [] class = "NonSpace" -> NonSpace(c)
      [] class = "ValueChar" -> ValueChar(c)
      [] class = "WordChar" -> WordChar(c)

\* the literal lit (given in lower case) stands at i, in any letter case
LitAt(text, i, lit) ==
    /\ i >= 1
    /\ i + Len(lit) - 1 <= Len(text)
    /\ Lower(SubSeq(text, i, i + Len(lit) - 1)) = lit

\* the end (first index after) of the longest run from i of characters
\* of the class: a greedy X*
Span(text, i, class) ==
    CHOOSE j \in i..(Len(text) + 1) :
        /\ \A k \in i..(j - 1) : InClass(class, text[k])
        /\ (j = Len(text) + 1 \/ ~InClass(class, text[j]))

\* a literal at position p: the position after it
Lit(text, p, lit) == IF p # 0 /\ LitAt(text, p, lit) THEN p + Len(lit) ELSE 0

\* an optional literal at position p
Opt(text, p, lit) == IF LitAt(text, p, lit) THEN p + Len(lit) ELSE p

\* e, the end of a run that began at p, when the run is not empty
NonEmpty(p, e) == IF e > p THEN e ELSE 0

\* a greedy X+ at position p: the position after the run
Plus(text, p, class) == IF p = 0 THEN 0 ELSE NonEmpty(p, Span(text, p, class))

NoMatch == [ok |-> FALSE, end |-> 0, groups |-> {}, user |-> <<>>, pw |-> <<>>]

\* the match object: where the match ends and what its named groups hold;
\* each group is given by its start and end, <<0, 0>> for a group the
\* pattern does not have
MatchObj(text, end, user, pw) ==
    IF end = 0 THEN NoMatch
    ELSE [ok |-> TRUE, end |-> end,
          groups |-> (IF user[1] = 0 THEN {} ELSE {"user"})
                     \cup (IF pw[1] = 0 THEN {} ELSE {"pw"}),
          user |-> IF user[1] = 0 THEN <<>> ELSE SubSeq(text, user[1], user[2] - 1),
          pw |-> IF pw[1] = 0 THEN <<>> ELSE SubSeq(text, pw[1], pw[2] - 1)]

\* (?P<pw>\S+) at g, the last piece of a pattern
LastWord(text, user, g) == MatchObj(text, Plus(text, g, "NonSpace"), user, <<g, Plus(text, g, "NonSpace")>>)

\* (?P<user>\S+)\s+(?P<pw>\S+) with the user name running from u to f
NetUsePw(text, u, f) == LastWord(text, <<u, f>>, Plus(text, f, "IsSpace"))
NetUseUser(text, u) == NetUsePw(text, u, Plus(text, u, "NonSpace"))

\* net\s+use\s+\\\\\S+\s+/user:(?P<user>\S+)\s+(?P<pw>\S+)
MatchNetUse(text, i) ==
    NetUseUser(text,
        Lit(text, Plus(text, Plus(text, Lit(text, Plus(text, Lit(text,
            Plus(text, Lit(text, i, <<"n","e","t">>), "IsSpace"),
            <<"u","s","e">>), "IsSpace"), <<"\\","\\">>), "NonSpace"), "IsSpace"),
            <<"/","u","s","e","r",":">>))

\* -AsPlainText\s+(?P<pw>\S+)
MatchAsPlainText(text, i) ==
    LastWord(text, <<0, 0>>,
        Plus(text, Lit(text, i, <<"-","a","s","p","l","a","i","n","t","e","x","t">>),
             "IsSpace"))

\* ['\"]?(?P<v>[^'\"\r\n]+) at k: where the value starts, 0 when none does
ValueStart(text, k) ==
    IF k > Len(text) THEN 0
    ELSE IF text[k] \in Quotes
    THEN (IF k + 1 <= Len(text) /\ ValueChar(text[k + 1]) THEN k + 1 ELSE 0)
    ELSE IF ValueChar(text[k]) THEN k
    ELSE 0

\* the value that starts at s
ValueFrom(text, s) == IF s = 0 THEN <<0, 0>> ELSE <<s, Span(text, s, "ValueChar")>>

\* \s* after "=" gives whitespace back, one character at a time, until an
\* optional quote and a value follow: good holds the places where they do
LastGood(text, good) ==
    IF good = {} THEN <<0, 0>>
    ELSE ValueFrom(text, ValueStart(text, CHOOSE k \in good : \A j \in good : j <= k))

\* =\s*['\"]?(?P<v>[^'\"\r\n]+) at q
AfterEquals(text, q) ==
    IF q > Len(text) \/ text[q] # "=" THEN <<0, 0>>
    ELSE LastGood(text, {k \in (q + 1)..Span(text, q + 1, "IsSpace") :
                            ValueStart(text, k) # 0})

\* \s*=\s*['\"]?(?P<v>[^'\"\r\n]+) from p: where the value starts and ends,
\* <<0, 0>> when there is no match
MatchAssign(text, p) == IF p = 0 THEN <<0, 0>> ELSE AfterEquals(text, Span(text, p, "IsSpace"))

\* the match of an assignment whose value is v, held by the named group
AssignObj(text, group, v) ==
    MatchObj(text, v[2], IF group = "user" THEN v ELSE <<0, 0>>,
             IF group = "pw" THEN v ELSE <<0, 0>>)

\* \$?user\s*=\s*['\"]?(?P<user>[^'\"\r\n]+)
MatchUserAssign(text, i) ==
    AssignObj(text, "user", MatchAssign(text,
        Lit(text, Opt(text, i, <<"$">>), <<"u","s","e","r">>)))

\* (?:word|wd)?: the end of the keyword whose "pass" ends at a
PassKeywordEnd(text, a) ==
    IF LitAt(text, a, <<"w","o","r","d">>) THEN a + 4
    ELSE IF LitAt(text, a, <<"w","d">>) THEN a + 2
    ELSE a

\* the longer keyword is tried first, the bare "pass" when it leads nowhere
FirstOf(text, long, a) == IF long[1] # 0 THEN long ELSE MatchAssign(text, a)
PassValue(text, a) ==
    IF a = 0 THEN <<0, 0>>
    ELSE FirstOf(text, MatchAssign(text, PassKeywordEnd(text, a)), a)

\* \$?pass(?:word|wd)?\s*=\s*['\"]?(?P<pw>[^'\"\r\n]+)
MatchPassAssign(text, i) ==
    AssignObj(text, "pw", PassValue(text,
        Lit(text, Opt(text, i, <<"$">>), <<"p","a","s","s">>)))

_PATTERNS == <<"net_use", "as_plain_text", "user_assign", "pass_assign">>

\* pat.match(text, i)
MatchAt(pat, text, i) ==
    CASE pat = "net_use" -> MatchNetUse(text, i)
      [] pat = "as_plain_text" -> MatchAsPlainText(text, i)
      [] pat = "user_assign" -> MatchUserAssign(text, i)
      [] pat = "pass_assign" -> MatchPassAssign(text, i)

\* pat.finditer(text): the matches from left to right, none overlapping;
\* starts holds the positions from pos on where the pattern matches
RECURSIVE FindIter(_, _, _)
FindNext(pat, text, m) == <<m>> \o FindIter(pat, text, m.end)
FindFirst(pat, text, starts) ==
    IF starts = {} THEN <<>>
    ELSE FindNext(pat, text,
             MatchAt(pat, text, CHOOSE i \in starts : \A j \in starts : i <= j))
FindIter(pat, text, pos) ==
    FindFirst(pat, text, {i \in pos..Len(text) : MatchAt(pat, text, i).ok})
\* m.groupdict().get(group, "")
GroupGet(m, group) == IF group \in m.groups THEN m[group] ELSE <<>>

-----------------------------------------------------------------------------
(* Logging and recording *)

\* context.log.<level>(...): the message kind and the values formatted in
LogEv(level, kind, parts) == Ev(level, kind, parts, TRUE)

LogLevels == {"display", "success", "highlight"}

\* a finding appended to the instance's list
RecordEv(row) == Ev("record", "", row, TRUE)

\* the findings a run appended, in order
RecordedNewestFirst(evs) ==
    LET rs == SelectSeq(evs, LAMBDA e : e.op = "record")
    IN [i \in 1..Len(rs) |-> rs[Len(rs) + 1 - i].arg]
Recorded(evs) == LET rs == SelectSeq(evs, LAMBDA e : e.op = "record") IN [i \in 1..Len(rs) |-> rs[i].arg]

\* the lines a run logged, in order
Logged(evs) == SelectSeq(evs, LAMBDA e : e.op \in LogLevels)

RECURSIVE Flat(_)
Flat(ss) == IF ss = <<>> THEN <<>> ELSE Head(ss) \o Flat(Tail(ss))

Hostname == <<"d","c","1">>

\* Python's None, where a string may stand
NoneVal == <<"None">>

\* logon_scripts_enum._record: the row is an ordered dict
Row(rtype, share, rel_path, extra) ==
    <<<<"Type", rtype>>, <<"Share", share>>, <<"Path", rel_path>>,
      <<"Extra", IF extra = NoneVal THEN <<>> ELSE extra>>>>

_record(rtype, share, rel_path, extra) ==
    <<RecordEv(Row(rtype, share, rel_path, extra))>>

\* password_spider._report: the log line, then the finding
_reportUnlogged(share, rel_path, user, pw) ==
    LET linux_path == <<"/", "/">> \o Hostname \o <<"/">> \o share \o <<"/">>
                          \o PurePosixPath(rel_path)
    IN <<RecordEv(<<<<"File", linux_path>>, <<"User", user>>,
                    <<"Password", pw>>>>)>>
_report(share, rel_path, user, pw) ==
    LET linux_path == <<"/", "/">> \o Hostname \o <<"/">> \o share \o <<"/">>
                          \o PurePosixPath(rel_path)
    IN <<LogEv("highlight", "CREDENTIAL", <<linux_path, user, pw>>),
         RecordEv(<<<<"File", linux_path>>, <<"User", user>>,
                    <<"Password", pw>>>>)>>

-----------------------------------------------------------------------------
(* CSV export *)

\* dict.keys()
Keys(row) == [i \in 1..Len(row) |-> row[i][1]]

\* the value DictWriter writes for a field
Field(row, key) ==
    LET hit == {i \in 1..Len(row) : row[i][1] = key}
    IN IF hit = {} THEN <<>> ELSE row[CHOOSE i \in hit : TRUE][2]

\* writeheader() and writerows(rows) with fieldnames = rows[0].keys()
Csv(rows) ==
    [header |-> Keys(rows[1]),
     rows |-> [i \in 1..Len(rows) |->
                  [j \in 1..Len(rows[1]) |-> Field(rows[i], Keys(rows[1])[j])]]]

ExportName(m) ==
    IF m = "creds" THEN "credentials.csv" ELSE "logon_scripts_enum.csv"

\* if self.save_dir and self.findings / self.csv_rows
ExportGuardSaveOnly(sd, rows) == sd # "None"
ExportGuard(sd, rows) == sd # "None" /\ rows # <<>>

\* the export at the end of on_login: out.open("w") creates the file, then
\* the header and the rows are written
Export(m, sd, rows, dirs) ==
    LET out == sd \o "/" \o ExportName(m)
    IN IF ~ExportGuard(sd, rows) THEN <<>>
       ELSE IF sd \notin dirs THEN <<RaiseEv("FileNotFoundError")>>
       ELSE IF rows = <<>>
       THEN <<Ev("write", out, [header |-> <<>>, rows |-> <<>>], TRUE),
              RaiseEv("IndexError")>>
       ELSE <<Ev("write", out, Csv(rows), TRUE),
              LogEv("success", "CSV_WRITTEN", <<out>>)>>

-----------------------------------------------------------------------------
(* password_spider.on_login *)

\* what the patterns find in the text of one file, each match reported
ReportAll(sh, rel_path, ms) ==
    Flat([k \in 1..Len(ms) |->
        _report(sh, rel_path, GroupGet(ms[k], "user"), GroupGet(ms[k], "pw"))])
ScanText(sh, rel_path, data) ==
    IF data = <<>> THEN <<>>
    ELSE Flat([p \in 1..Len(_PATTERNS) |->
             ReportAll(sh, rel_path, FindIter(_PATTERNS[p], data, 1))])

\* the loop over the collected files: fetch, skip empty text, run every
\* pattern and report every match; rd holds the events of the fetch
RECURSIVE ScanFiles(_, _)
ScanFetched(rem, files, rd) ==
    IF Raised(rd) THEN rd
    ELSE rd \o ScanText(files[1][1], files[1][2], Returned(rd))
            \o ScanFiles(rem, Tail(files))
ScanFiles(rem, files) ==
    IF files = <<>> THEN <<>>
    ELSE ScanFetched(rem, files,
                     _read_file("creds", rem, files[1][1], files[1][2]))

\* if not self.findings
NothingFoundCreds(old, new) == old \o new = <<>>

\* the rest of on_login once the files are scanned
CredsScanned(old, sd, dirs, upto, scan) ==
    IF Raised(scan) THEN upto \o scan
    ELSE upto \o scan
         \o (IF NothingFoundCreds(old, Recorded(scan))
             THEN <<LogEv("display", "NO_CREDENTIALS", <<>>)>> ELSE <<>>)
         \o Export("creds", sd, old \o Recorded(scan), dirs)

\* the rest of on_login once the walk is collected into a list
CredsCollected(rem, old, sd, dirs, head, walk) ==
    IF Raised(walk) THEN head \o walk
    ELSE CredsScanned(old, sd, dirs,
             head \o walk \o <<LogEv("display", "COLLECTED", <<Len(Yields(walk))>>)>>,
             ScanFiles(rem, Yields(walk)))

CredsRun(rem, old, sd, dirs) ==
    CredsCollected(rem, old, sd, dirs,
        <<LogEv("display", "COLLECTING", <<Sysvol, ScriptsRoot>>)>>,
        IterFiles(rem, "creds", Sysvol, ScriptsRoot, ScriptExts))
-----------------------------------------------------------------------------
(* logon_scripts_enum.on_login *)

\* the names the import statements of each module bind
Imports(m) ==
    IF m = "creds"
    THEN {"Path", "PurePosixPath", "BytesIO", "re", "csv", "Iterable", "Set",
          "Tuple", "List", "Dict", "Optional"}
    ELSE {"Path", "csv", "Iterable", "Set", "Tuple"}

\* \\\\.*?\.\w+ at i: the end of the match, 0 when there is none
MatchUnc(text, i) ==
    LET dots == {j \in (i + 2)..(Len(text) - 1) :
                     /\ text[j] = "."
                     /\ WordChar(text[j + 1])
                     /\ \A k \in (i + 2)..(j - 1) : text[k] # "\n"}
        first == CHOOSE j \in dots : \A k \in dots : j <= k
    IN IF LitAt(text, i, <<"\\","\\">>) /\ dots # {}
       THEN Span(text, first + 1, "WordChar")
       ELSE 0

\* re.findall(r"\\\\.*?\.\w+", text, flags=re.I)
RECURSIVE FindAllUnc(_, _)
FindAllUnc(text, pos) ==
    IF pos > Len(text) THEN <<>>
    ELSE LET e == MatchUnc(text, pos)
         IN IF e # 0 THEN <<SubSeq(text, pos, e - 1)>> \o FindAllUnc(text, e)
            ELSE FindAllUnc(text, pos + 1)

\* the order in which a set is iterated
RECURSIVE SetOrder(_)
SetOrder(S) ==
    IF S = {} THEN <<>>
    ELSE LET x == CHOOSE y \in S : TRUE IN <<x>> \o SetOrder(S \ {x})

\* for m in set(...): log and record each reference
RefRows(share, rel_path, ms) ==
    Flat([k \in 1..Len(ms) |->
        <<LogEv("success", "GPO_SCRIPT_REF", <<ms[k], rel_path>>)>>
        \o _record("GpoScriptRef", share, rel_path, ms[k])])

\* set(re.findall(...)): the name re is looked up when the line runs
GpoRefs(share, rel_path, data) ==
    IF "re" \notin Imports("logon") THEN <<RaiseEv("NameError")>>
    ELSE RefRows(share, rel_path, SetOrder(Range(FindAllUnc(data, 1))))

\* rd holds the events of the fetch of a scripts.ini
IniFetched(share, rel_path, rd) ==
    rd \o (IF Raised(rd) THEN <<>> ELSE GpoRefs(share, rel_path, Returned(rd)))

\* the body of the loop over ini_paths for one yielded file
IniBody(rem, share, rel_path) ==
    IF ~EndsWith(Lower(rel_path), <<"s","c","r","i","p","t","s",".","i","n","i">>)
    THEN <<>>
    ELSE <<LogEv("display", "ANALYZE", <<rel_path>>)>>
         \o IniFetched(share, rel_path, _read_file("logon", rem, share, rel_path))

\* the loop over the ini_paths generator: the walk advances only when the
\* loop asks for the next file, and stops where the loop raises; body holds
\* what the loop did for the first event of the walk
RECURSIVE GpoPass(_, _)
GpoStep(rem, evs, body) ==
    IF Head(evs).op = "raise" \/ Raised(body) THEN <<Head(evs)>> \o body
    ELSE <<Head(evs)>> \o body \o GpoPass(rem, Tail(evs))
GpoPass(rem, evs) ==
    IF evs = <<>> THEN <<>>
    ELSE GpoStep(rem, evs,
                 IF Head(evs).op = "yield"
                 THEN IniBody(rem, Head(evs).tag, Head(evs).arg) ELSE <<>>)

\* if logon_scripts: log and record each one; else say there is none
LogonScripts(files) ==
    IF files # <<>>
    THEN Flat([k \in 1..Len(files) |->
             <<LogEv("success", "LOGON_SCRIPT", <<files[k][1], files[k][2]>>)>>
             \o _record("LogonScript", files[k][1], files[k][2], NoneVal)])
    ELSE <<LogEv("display", "NO_LOGON_SCRIPTS", <<>>)>>

\* the rest of on_login once the scripts.ini files are gone through
LogonAnalysed(old, sd, dirs, part) ==
    IF Raised(part) THEN part
    ELSE part \o Export("logon", sd, old \o Recorded(part), dirs)

\* the rest of on_login once the walk of scripts is collected into a list
LogonCollected(rem, old, sd, dirs, head, walk) ==
    IF Raised(walk) THEN head \o walk
    ELSE LogonAnalysed(old, sd, dirs,
             head \o walk \o LogonScripts(Yields(walk))
             \o GpoPass(rem, IterFiles(rem, "logon", Sysvol, PoliciesRoot, IniExts)))

LogonRun(rem, old, sd, dirs) ==
    LogonCollected(rem, old, sd, dirs,
        <<LogEv("display", "SEARCHING", <<Sysvol, ScriptsRoot>>)>>,
        IterFiles(rem, "logon", Sysvol, ScriptsRoot, ScriptExts))
-----------------------------------------------------------------------------
(* The module instance: __init__, options, on_login *)

\* Path(save).expanduser().resolve()
ResolveDir(save) == "/cwd/" \o save

\* module_options.get("SAVE"): absent, empty, or a directory
SaveValues == {"None", "", "out"}

\* options(context, module_options)
Options ==
    /\ \E save \in SaveValues :
           IF save # "None" /\ save # ""
           THEN /\ save_dir' = ResolveDir(save)
                /\ fsDirs' = fsDirs \cup {ResolveDir(save)}
           ELSE UNCHANGED <<save_dir, fsDirs>>
    /\ UNCHANGED <<mode, findings, fsFile, log, remote, trace, raised, runs>>

\* the events of one on_login run against the share rem
Run(m, rem, old, sd, dirs) ==
    IF m = "creds" THEN CredsRun(rem, old, sd, dirs)
    ELSE LogonRun(rem, old, sd, dirs)

\* the export file after the run's writes
Written(file, evs) ==
    LET ws == SelectSeq(evs, LAMBDA e : e.op = "write")
    IN IF ws = <<>> THEN file
       ELSE [exists |-> TRUE, header |-> ws[Len(ws)].arg.header,
             rows |-> ws[Len(ws)].arg.rows]

\* on_login(context, connection) with connection.conn serving rem
OnLoginWith(rem) ==
    /\ trace' = Run(mode, rem, findings, save_dir, fsDirs)
    /\ remote' = rem
    /\ findings' = findings \o Recorded(trace')
    /\ log' = log \o Logged(trace')
    /\ fsFile' = Written(fsFile, trace')
    /\ raised' = IF Raised(trace') THEN trace'[Len(trace')].tag ELSE "none"
    /\ runs' = runs + 1
    /\ UNCHANGED <<mode, save_dir, fsDirs>>

-----------------------------------------------------------------------------
(* The shares the runs of Spec meet *)

TextCred == <<"p","a","s","s","=","x">>
TextPlain == <<"e","c","h","o">>
LoginVbsUnc == <<"\\","\\","D","C","0","1","\\","S","y","s","V","o","l","\\","c","o","r","p",".","l","o","c","a","l","\\","s","c","r","i","p","t","s","\\","l","o","g","i","n",".","v","b","s">>
TextIni == LoginVbsUnc \o <<"\n">> \o LoginVbsUnc

NameScriptsIni == <<"s","c","r","i","p","t","s",".","i","n","i">>
NameOtherIni == <<"x",".","i","n","i">>
NameGpo == <<"g">>

\* how the session may answer the retrieval calls for a script file
ScriptPlans ==
    {MkPlan(TRUE, TRUE, TRUE, TRUE, TextCred),
     MkPlan(TRUE, TRUE, TRUE, TRUE, TextPlain),
     MkPlan(TRUE, TRUE, TRUE, TRUE, <<BadByte>>),
     MkPlan(FALSE, FALSE, TRUE, TRUE, TextCred),
     MkPlan(FALSE, TRUE, FALSE, TRUE, TextCred),
     MkPlan(FALSE, TRUE, TRUE, FALSE, TextCred),
     MkPlan(FALSE, TRUE, TRUE, TRUE, TextCred)}

Script(name, plan) == FileNode(ImpacketShape, name, plan)

\* <domain>/scripts as the credential scan may find it
CredsScripts ==
    {NoListing, OkListing(<<>>), OkListing(<<WalkFile(NameCTxt)>>)}
    \cup {OkListing(<<Script(NameABat, p)>>) : p \in ScriptPlans}
    \cup {OkListing(<<DirNode(NameD, NoListing),
                      Script(NameBPs1, MkPlan(TRUE, TRUE, TRUE, TRUE, TextCred))>>),
          OkListing(<<Script(NameABat, MkPlan(FALSE, FALSE, TRUE, TRUE, TextCred)),
                      Script(NameBPs1, MkPlan(TRUE, TRUE, TRUE, TRUE, TextCred))>>),
          OkListing(<<Script(NameABat, MkPlan(TRUE, TRUE, TRUE, TRUE, TextCred)),
                      DirNode(NameD, NoListing),
                      Script(NameBPs1, MkPlan(FALSE, TRUE, TRUE, TRUE, TextCred))>>)}

\* <domain>/scripts and <domain>/Policies as the enumeration may find them
LogonScriptsDirs ==
    {NoListing,
     OkListing(<<WalkFile(NameABat)>>),
     OkListing(<<DirNode(NameD, NoListing), WalkFile(NameBPs1)>>),
     OkListing(<<WalkFile(NameABat),
                 DirNode(NameD, OkListing(<<WalkFile(NameE)>>))>>)}

LogonPolicies ==
    {NoListing,
     OkListing(<<Script(NameOtherIni, MkPlan(TRUE, TRUE, TRUE, TRUE, TextIni))>>),
     OkListing(<<DirNode(NameGpo,
         OkListing(<<Script(NameScriptsIni,
                            MkPlan(TRUE, TRUE, TRUE, TRUE, TextIni))>>))>>),
     OkListing(<<Script(NameScriptsIni, MkPlan(TRUE, FALSE, TRUE, TRUE, TextIni))>>)}

RunRemotes(m) ==
    IF m = "creds"
    THEN {ShareRoot(s, NoListing) : s \in CredsScripts}
    ELSE {ShareRoot(s, p) : s \in LogonScriptsDirs, p \in LogonPolicies}

-----------------------------------------------------------------------------
(* Spec: a module instance, its options and its on_login runs *)

\* __init__
Init ==
    /\ mode \in {"logon", "creds"}
    /\ save_dir = "None"
    /\ findings = <<>>
    /\ fsDirs = {}
    /\ fsFile = NoFile
    /\ log = <<>>
    /\ remote = ShareRoot(NoListing, NoListing)
    /\ trace = <<>>
    /\ raised = "none"
    /\ runs = 0

OnLogin ==
    /\ runs < MaxRuns
    /\ \E rem \in RunRemotes(mode) : OnLoginWith(rem)

Next == Options \/ OnLogin

Spec == Init /\ [][Next]_vars

-----------------------------------------------------------------------------
(* SpecExtract: the credential scan of one script file, over script texts *)

ScriptLines ==
    {<<"n","e","t"," ","u","s","e"," ","\\","\\","s","r","v","\\","s","h","a","r","e"," ","/","u","s","e","r",":","a","l","i","c","e"," ","S","e","c","r","3","t","!">>,
     <<"N","E","T"," "," ","U","S","E"," ","\\","\\","s","r","v","\\","s","h","a","r","e"," ","/","U","S","E","R",":","b","o","b"," ","p","w","1">>,
     <<"n","e","t"," ","u","s","e"," ","\\","\\","s","r","v","\\","s","h","a","r","e"," ","/","u","s","e","r",":","c","a","r","o","l">>,
     <<"e","c","h","o"," ","o","f","f">>,
     <<"p","a","s","s","=","h","u","n","t","e","r","2">>,
     <<"P","A","S","S"," ","="," ","\"","h","u","n","t","e","r","2","\"">>,
     <<"p","w","d","=","h","u","n","t","e","r","2">>,
     <<"P","a","s","s","w","o","r","d","=","'","s","3","c","r","e","t","'">>}

\* the texts of n lines
RECURSIVE TextsOf(_)
TextsOf(n) ==
    IF n = 1 THEN ScriptLines
    ELSE {t \o <<"\n">> \o l : t \in TextsOf(n - 1), l \in ScriptLines}

ScriptTexts == UNION {TextsOf(n) : n \in 1..MaxLines}

InitExtract ==
    /\ mode = "creds"
    /\ remote \in {ShareRoot(OkListing(<<Script(NameABat,
                       MkPlan(TRUE, TRUE, TRUE, TRUE, t))>>), NoListing) :
                       t \in ScriptTexts}
    /\ save_dir = "None"
    /\ findings = <<>>
    /\ fsDirs = {}
    /\ fsFile = NoFile
    /\ log = <<>>
    /\ trace = <<>>
    /\ raised = "none"
    /\ runs = 0

\* one on_login run against the share
ScanOnce ==
    /\ runs = 0
    /\ OnLoginWith(remote)

NextExtract == ScanOnce

SpecExtract == InitExtract /\ [][NextExtract]_vars

-----------------------------------------------------------------------------
(* Claims about on_login, stated over the instance and the events of its    *)
(* latest run                                                               *)

\* C3: on_login of either scan mode runs to completion without raising,
\* whatever directory listings and file reads the session fails.
C3_OnLoginNeverRaises == raised = "none"

RetrievalOps == {"getFile", "openFile", "readFile", "closeFile"}

\* the log lines and the records that report a finding
FindingOps == {"record", "highlight"}

\* C4: _read_file never raises to its caller: a failed retrieval call is
\* followed by the fallback or by the return of the empty string, and the
\* caller reports no finding for a file whose text came back empty.
C4_ReadFileNeverRaises ==
    \A i \in 1..Len(trace) :
        (trace[i].op \in RetrievalOps /\ ~trace[i].ok) =>
            /\ i < Len(trace)
            /\ \/ trace[i].op = "getFile" /\ trace[i + 1].op = "openFile"
               \/ /\ trace[i + 1].op = "return"
                  /\ trace[i + 1].arg = <<>>
                  /\ i + 2 <= Len(trace) =>
                         /\ trace[i + 2].op \notin FindingOps
                         /\ ~(/\ trace[i + 2].op = "success"
                              /\ trace[i + 2].tag = "GPO_SCRIPT_REF")

\* the credential scan ran to its end over a file whose streamed retrieval
\* and whose fallback both failed
C4_Witness ==
    /\ mode = "creds"
    /\ raised = "none"
    /\ \E i \in 1..(Len(trace) - 2) :
           /\ trace[i].op = "getFile" /\ ~trace[i].ok
           /\ trace[i + 1].op = "openFile" /\ ~trace[i + 1].ok
           /\ trace[i + 2].op = "return" /\ trace[i + 2].arg = <<>>

\* C5: after any run that leaves the finding list empty no export file
\* exists, whether or not SAVE was given.
C5_NoExportWithoutFindings ==
    (runs >= 1 /\ findings = <<>>) => ~fsFile.exists

\* a run with SAVE given came to its end with nothing found
C5_Witness ==
    /\ runs >= 1
    /\ save_dir # "None"
    /\ raised = "none"
    /\ findings = <<>>
    /\ ~fsFile.exists

\* the values of a row, in the order of its fields
Values(row) == [j \in 1..Len(row) |-> row[j][2]]

\* the export file holds the header of the first finding and one row for
\* each finding, in recording order
ExportHolds(file, rows) ==
    /\ file.exists
    /\ file.header = Keys(rows[1])
    /\ file.rows = [i \in 1..Len(rows) |-> Values(rows[i])]

\* C6: a run with SAVE given that records at least one finding ends with
\* the export file written: the header of the first finding, one row for
\* each finding, in recording order.
C6_ExportWrittenWhenFindings ==
    [][(runs' = runs + 1 /\ save_dir # "None" /\ Recorded(trace') # <<>>)
           => ExportHolds(fsFile', findings')]_vars

\* the index of the event that ends the first _read_file call after event i
ReturnAfter(evs, i) ==
    CHOOSE r \in (i + 1)..Len(evs) :
        /\ evs[r].op = "return"
        /\ \A k \in (i + 1)..(r - 1) : evs[k].op # "return"

\* the GpoScriptRef findings of a run for the file rel_path that carry ref
RefsRecorded(evs, rel_path, ref) ==
    {j \in 1..Len(evs) :
        /\ evs[j].op = "record"
        /\ Field(evs[j].arg, "Type") = "GpoScriptRef"
        /\ Field(evs[j].arg, "Path") = rel_path
        /\ Field(evs[j].arg, "Extra") = ref}

\* C7: a scripts.ini whose text holds the UNC path of login.vbs, once or
\* more often, gives exactly one GpoScriptRef finding carrying that path.
C7_OneRefPerIniFile ==
    \A i \in 1..Len(trace) :
        (/\ trace[i].op = "display"
         /\ trace[i].tag = "ANALYZE"
         /\ \E r \in (i + 1)..Len(trace) : trace[r].op = "return"
         /\ Contains(trace[ReturnAfter(trace, i)].arg, LoginVbsUnc))
        => Cardinality(RefsRecorded(trace, trace[i].arg[1], LoginVbsUnc)) = 1

NothingFoundKinds == {"NO_CREDENTIALS", "NO_LOGON_SCRIPTS"}

\* C10: every run that comes to its end having found nothing in that run
\* says so, whatever earlier runs on the instance found.
C10_NothingFoundIsSaid ==
    [][(runs' = runs + 1 /\ raised' = "none" /\ Recorded(trace') = <<>>)
           => \E i \in 1..Len(trace') :
                  /\ trace'[i].op = "display"
                  /\ trace'[i].tag \in NothingFoundKinds]_vars

-----------------------------------------------------------------------------
(* Claims about what the credential scan extracts, stated over the lines of *)
(* the texts it fetched                                                     *)

\* the lines of the texts the run fetched
FetchedLines(evs) ==
    UNION {Range(Split(evs[i].arg, "\n")) : i \in {k \in 1..Len(evs) : evs[k].op = "return"}}

\* the blank-separated tokens of a line
Tokens(line) == SelectSeq(Split(line, " "), LAMBDA t : t # <<>>)

\* t is the keyword followed by something
Prefixed(t, keyword) == LitAt(t, 1, keyword) /\ Len(t) > Len(keyword)

\* net use \\<server>\<share> /user:<U> <P>, keywords in any letter case
IsNetUseCommand(line) ==
    /\ Len(Tokens(line)) = 5
    /\ Lower(Tokens(line)[1]) = <<"n","e","t">>
    /\ Lower(Tokens(line)[2]) = <<"u","s","e">>
    /\ Prefixed(Tokens(line)[3], <<"\\","\\">>)
    /\ Prefixed(Tokens(line)[4], <<"/","u","s","e","r",":">>)

\* a finding of the instance with this user and this password
Found(user, pw) ==
    \E j \in 1..Len(findings) :
        /\ Field(findings[j], "User") = user
        /\ Field(findings[j], "Password") = pw

\* C8: every fetched text with a net use command that names a user U and a
\* password P gives a finding with user U and password P.
C8_NetUseCommandFound ==
    \A line \in FetchedLines(trace) :
        IsNetUseCommand(line) =>
            Found(SubSeq(Tokens(line)[4], 7, Len(Tokens(line)[4])), Tokens(line)[5])

\* the length of the password keyword a line starts with, 0 when it starts
\* with none
PassKeyword(line) ==
    IF LitAt(line, 1, <<"p","a","s","s","w","o","r","d">>) THEN 8
    ELSE IF LitAt(line, 1, <<"p","a","s","s">>) THEN 4
    ELSE IF LitAt(line, 1, <<"p","w","d">>) THEN 3
    ELSE 0

\* s without the blanks it begins with
Unblank(s) == SubSeq(s, Span(s, 1, "IsSpace"), Len(s))

\* s without the quote it may begin with
Unquote(s) == IF s # <<>> /\ s[1] \in Quotes THEN Tail(s) ELSE s

\* what stands right of the "=" of <keyword> = <value>: <<>> when the line
\* is no such assignment
AssignedText(line) ==
    IF PassKeyword(line) = 0 THEN <<>>
    ELSE IF Unblank(SubSeq(line, PassKeyword(line) + 1, Len(line))) = <<>> THEN <<>>
    ELSE IF Head(Unblank(SubSeq(line, PassKeyword(line) + 1, Len(line)))) # "=" THEN <<>>
    ELSE Unquote(Unblank(Tail(Unblank(SubSeq(line, PassKeyword(line) + 1, Len(line))))))

\* the value: the text up to the closing quote or the end of the line
AssignedValue(line) ==
    SubSeq(AssignedText(line), 1, Span(AssignedText(line), 1, "ValueChar") - 1)

\* C9: every fetched text with <keyword> = <value>, the keyword one of pass,
\* password and pwd in any letter case, gives a finding whose password is
\* the value and whose user is empty.
C9_PassAssignFound ==
    \A line \in FetchedLines(trace) :
        AssignedValue(line) # <<>> => Found(<<>>, AssignedValue(line))

-----------------------------------------------------------------------------
(* Claims about the export directory, the walk's paths, the finding list,   *)
(* the retrieval calls and the order of the events of a run                 *)

\* C11: the SAVE directory is created only when an export is performed and
\* a finding exists: while the finding list is empty no directory has been
\* created.
C11_DirCreatedOnlyWithFindings == findings = <<>> => fsDirs = {}

\* C12: no path the walk yields has a segment "." or "..", whatever names
\* the listings return (a name being one path segment).
C12_NoDotSegments ==
    \A i \in 1..Len(trace) :
        trace[i].op = "yield" =>
            \A seg \in Range(Split(trace[i].arg, "/")) : ~IsAlias(seg)

\* a finished walk that yielded a file from a tree in which an entry named
\* "." or ".." lists a directory that holds entries
C12_Witness ==
    /\ runs = 1
    /\ Yields(trace) # <<>>
    /\ \E i \in 1..Len(ScriptsTree(remote).kids) :
           /\ IsAlias(ScriptsTree(remote).kids[i].entry.name)
           /\ ScriptsTree(remote).kids[i].sub.ok
           /\ ScriptsTree(remote).kids[i].sub.kids # <<>>

\* the file a finding names, as its row holds it
FileOf(m, row) == IF m = "creds" THEN Field(row, "File") ELSE Field(row, "Path")

\* the file a yield names, written the way a finding of the mode holds it
YieldedFile(m, ev) ==
    IF m = "creds"
    THEN <<"/", "/">> \o Hostname \o <<"/">> \o ev.tag \o <<"/">> \o ev.arg
    ELSE ev.arg

\* where in the events the walker yielded the file of a finding, 0 when it
\* did not
YieldPos(m, evs, row) ==
    IF \E j \in 1..Len(evs) :
           evs[j].op = "yield" /\ YieldedFile(m, evs[j]) = FileOf(m, row)
    THEN CHOOSE j \in 1..Len(evs) :
             evs[j].op = "yield" /\ YieldedFile(m, evs[j]) = FileOf(m, row)
    ELSE 0

\* rows name files the walker yielded, in the order it yielded them
InYieldOrder(m, evs, rows) ==
    /\ \A a \in 1..Len(rows) : YieldPos(m, evs, rows[a]) # 0
    /\ \A a, b \in 1..Len(rows) :
           a < b => YieldPos(m, evs, rows[a]) <= YieldPos(m, evs, rows[b])

\* C13: the finding list is append-only and in discovery order: every step
\* keeps the old list as a prefix of the new one, and what a run appends is
\* in the order in which the walker yielded the files.
C13_FindingsAppendOnly ==
    [][/\ Len(findings') >= Len(findings)
       /\ SubSeq(findings', 1, Len(findings)) = findings
       /\ InYieldOrder(mode, trace',
                       SubSeq(findings', Len(findings) + 1, Len(findings')))]_vars

\* two runs have appended findings, the later one findings of two files
C13_Witness ==
    /\ runs = 2
    /\ Len(findings) > Len(Recorded(trace))
    /\ Cardinality({FileOf(mode, Recorded(trace)[k]) :
                        k \in 1..Len(Recorded(trace))}) >= 2

\* C14: a fetch first attempts the streamed retrieval, and opens the file
\* only after that attempt has failed for the same file: every openFile of a
\* run directly follows a failed getFile of the same share and path, and no
\* call follows a getFile that succeeded.
C14_OpenOnlyAfterFailedGet ==
    \A i \in 1..Len(trace) :
        /\ trace[i].op = "openFile" =>
               /\ i > 1
               /\ trace[i - 1].op = "getFile"
               /\ ~trace[i - 1].ok
               /\ trace[i - 1].tag = trace[i].tag
               /\ trace[i - 1].arg = trace[i].arg
        /\ (trace[i].op = "getFile" /\ trace[i].ok) =>
               /\ i < Len(trace)
               /\ trace[i + 1].op = "return"

ResultKinds == {"LOGON_SCRIPT", "GPO_SCRIPT_REF", "CREDENTIAL"}

IsResultLine(e) == e.op \in LogLevels /\ e.tag \in ResultKinds

\* the result lines among log events
ResultLines(evs) == SelectSeq(evs, IsResultLine)

\* a result line names what the finding holds
Describes(line, row) ==
    CASE line.tag = "CREDENTIAL" ->
             line.arg = <<Field(row, "File"), Field(row, "User"),
                          Field(row, "Password")>>
      [] line.tag = "LOGON_SCRIPT" ->
             /\ Field(row, "Type") = "LogonScript"
             /\ line.arg = <<Field(row, "Share"), Field(row, "Path")>>
      [] OTHER ->
             /\ Field(row, "Type") = "GpoScriptRef"
             /\ line.arg = <<Field(row, "Extra"), Field(row, "Path")>>

\* C15: recording and logging are in one-to-one step: the sink holds as many
\* result lines as the list holds findings, the k-th result line describes
\* the k-th finding, and within a run every appended finding directly
\* follows its result line and every result line is directly followed by
\* its finding.
C15_LogAndRecordInStep ==
    /\ Len(ResultLines(log)) = Len(findings)
    /\ \A k \in 1..Len(findings) : Describes(ResultLines(log)[k], findings[k])
    /\ \A i \in 1..Len(trace) :
           /\ trace[i].op = "record" =>
                  /\ i > 1
                  /\ IsResultLine(trace[i - 1])
                  /\ Describes(trace[i - 1], trace[i].arg)
           /\ IsResultLine(trace[i]) =>
                  /\ i < Len(trace)
                  /\ trace[i + 1].op = "record"

\* three findings on the list after two runs, the later run reporting some
C15_Witness ==
    /\ runs = 2
    /\ Len(findings) >= 3
    /\ ResultLines(trace) # <<>>

\* the places of the events where a call op is made
CallsOf(evs, op) == {i \in 1..Len(evs) : evs[i].op = op}

\* no two calls op of the events are made for the same share and argument
AtMostOnce(evs, op) ==
    \A i, j \in CallsOf(evs, op) :
        (evs[i].tag = evs[j].tag /\ evs[i].arg = evs[j].arg) => i = j

\* C16: no retries: in one run the listing call is issued at most once for a
\* directory path, and for a file at most one streamed retrieval, one open
\* and one read are issued, whether the calls succeed or fail.
C16_NoRetries ==
    \A op \in {"listPath", "getFile", "openFile", "readFile", "closeFile"} :
        AtMostOnce(trace, op)

\* a run in which a listing failed, a streamed retrieval failed and the
\* fallback was taken
C16_Witness ==
    /\ \E i \in CallsOf(trace, "listPath") : ~trace[i].ok
    /\ \E i \in CallsOf(trace, "getFile") : ~trace[i].ok
    /\ \E i \in CallsOf(trace, "openFile") : TRUE

\* the event a run ended with is a statement of on_login, not an exception
\* that left it
AtFinalStep(evs) == evs = <<>> \/ evs[Len(evs)].op # "raise"

\* C17: on every finite acyclic remote tree the walk terminates and so does
\* the on_login run: once called, the run has made finitely many calls, has
\* walked the tree to the end (a file at any depth is yielded) and has
\* reached its final export step and returned.
C17_RunReachesFinalStep ==
    runs >= 1 =>
        /\ \A p \in FilesUnder(ScriptsTree(remote), ScriptsRoot, ScriptExts) :
               \E i \in 1..Len(trace) :
                   trace[i].op = "yield" /\ trace[i].arg = p
        /\ AtFinalStep(trace)

\* the LOGON_SCRIPT line of the events for the file a yield event names
LineOf(evs, y) ==
    {j \in 1..Len(evs) :
        /\ evs[j].op = "success"
        /\ evs[j].tag = "LOGON_SCRIPT"
        /\ evs[j].arg = <<y.tag, y.arg>>}

\* C18: findings are streamed: in the logon-script mode the LOGON_SCRIPT
\* line of a file is emitted as soon as the walker yields the file, before
\* the walker issues a further directory-listing call of the same walk.
C18_LogonScriptsStreamed ==
    mode = "logon" =>
        \A i \in 1..Len(trace) :
            (trace[i].op = "yield" /\ HasExt(trace[i].arg, ScriptExts)) =>
                \E j \in LineOf(trace, trace[i]) :
                    /\ j > i
                    /\ \A k \in (i + 1)..(j - 1) : trace[k].op # "listPath"

\* the handles the events opened and did not close
OpenHandles(evs) ==
    {i \in CallsOf(evs, "openFile") :
        /\ evs[i].ok
        /\ \A j \in (i + 1)..Len(evs) :
               ~(evs[j].op = "closeFile" /\ evs[j].tag = evs[i].tag
                     /\ evs[j].arg = Handle(evs[i].arg))}

\* C19: no remote file handle is leaked by a fetch: every handle a
\* successful openFile returned has been passed to closeFile by the end of
\* the fetch, so that after the fetches of a run no handle is open.
C19_NoHandleLeak == OpenHandles(trace) = {}

====
